---- MODULE Spec2Model ----
(***************************************************************************)
(* The ANPR application: plate-text post-processing and plate recognition *)
(* of ANPRModel (integrated_anpr/models/anpr_model.py) and ANPRBackend     *)
(* (anpr_processor.py), the validation of ModelHandler, the camera thread  *)
(* and its window, the detection windows and the evaluation script.        *)
(*                                                                         *)
(* A Python string is a sequence of characters; a character is a one-      *)
(* character TLA+ string, and a non-ASCII character is named by its code   *)
(* point ("u00e9" is e-acute).  The empty Python string is <<>>.           *)
(***************************************************************************)
EXTENDS Integers, Sequences, FiniteSets, TLC

VARIABLES
    text,               \* the raw text the OCR engine has read so far
    pp,                 \* the last post-processing call: routine, input, locals, result
    results_processed,  \* ANPRModel: reader.readtext(processed_img)
    results_original,   \* ANPRModel: reader.readtext(resized)
    results_gray,       \* ANPRModel: reader.readtext(gray)
    result,             \* ANPRBackend: ocr.readtext(enhanced)
    ret,                \* the last recognize_plate call: routine, returned text and confidence
    model_obj,          \* the ANPRModel object: the attributes its recognition reads
    calls,              \* the recognize_plate calls made on model_obj: candidates and result
    cam,                \* the CameraThread object: its attributes and the position of run()
    queue,              \* the frames emitted by frame_ready and not yet delivered to the slot
    mw,                 \* the MainWindow object: its attributes and what the GUI thread is in
    rp,                 \* the process_frame call of each caller: position, frame, result
    locals,             \* the local variables of the recognize_plate call of each caller
    win,                \* the detection window (ANPRApp or ANPRMainWindow): its attributes
    mh,                 \* ModelHandler.recognize_plate: the OCR results and the last call
    accuracy,           \* calculate_accuracy: the two lists and the last call
    ev                  \* evaluate_model: the data, the position of the loop, its lists

\* the variables of the post-processing and recognition of one text or image
normalizerVars ==
    <<text, pp, results_processed, results_original, results_gray, result, ret>>
\* the variables of one ANPRModel object called again and again
objectVars == <<model_obj, calls>>
\* the variables of the camera window: MainWindow, CameraThread, ANPRBackend calls
cameraVars == <<cam, queue, mw, rp, locals>>
\* the variables of the detection window
windowVars == <<win>>
\* the variables of ModelHandler
handlerVars == <<mh>>
\* the variables of the evaluation script
evalVars == <<accuracy, ev>>
\* the variables outside the normalizer
appVars == <<objectVars, cameraVars, windowVars, handlerVars, evalVars>>

vars == <<normalizerVars, appVars>>

---------------------------------------------------------------------------
(* Bounds of the model.                                                    *)

\* longest raw text made of the characters PlateChars only
MaxLen == 9
\* longest raw text that holds a character of NoiseChars
MaxNoisyLen == 6
\* longest raw text that holds a character of MarkChars
MaxMarkLen == 4
\* OCR results over all the images of one recognition
MaxResults == 3
\* confidence levels: level k stands for the confidence k / MaxConf
MaxConf == 2

---------------------------------------------------------------------------
(* Characters: str.isalpha, str.isdigit, str.isalnum, str.upper, and the   *)
(* classes \d and [A-Z] of the re module on str patterns.                  *)

UpperSeq ==
    << "A","B","C","D","E","F","G","H","I","J","K","L","M",
       "N","O","P","Q","R","S","T","U","V","W","X","Y","Z" >>
LowerSeq ==
    << "a","b","c","d","e","f","g","h","i","j","k","l","m",
       "n","o","p","q","r","s","t","u","v","w","x","y","z" >>
AsciiUpper == { UpperSeq[i] : i \in 1..26 }
AsciiLower == { LowerSeq[i] : i \in 1..26 }
AsciiDigit == { "0","1","2","3","4","5","6","7","8","9" }

\* non-ASCII characters: e-acute and E-acute (letters), sharp s (a letter whose
\* upper case is the two characters SS), j with caron (a letter whose upper case
\* is J followed by COMBINING CARON, which is no letter and no digit),
\* ARABIC-INDIC DIGIT THREE (a decimal digit)
NonAsciiLetter == { "u00e9", "u00c9", "u00df", "u01f0" }
NonAsciiDigit == { "u0663" }

isalpha(c) == c \in AsciiUpper \cup AsciiLower \cup NonAsciiLetter
isdigit(c) == c \in AsciiDigit \cup NonAsciiDigit
isalnum(c) == isalpha(c) \/ isdigit(c)

\* str.upper of one character: a string, of two characters for sharp s
UpperChar(c) ==
    IF c \in AsciiLower THEN << UpperSeq[CHOOSE i \in 1..26 : LowerSeq[i] = c] >>
    ELSE IF c = "u00e9" THEN << "u00c9" >>
    ELSE IF c = "u00df" THEN << "S", "S" >>
    ELSE IF c = "u01f0" THEN << "J", "u030c" >>
    ELSE << c >>

RECURSIVE upper(_)
upper(s) == IF s = <<>> THEN <<>> ELSE UpperChar(Head(s)) \o upper(Tail(s))

\* \d of a str pattern matches every Unicode decimal digit; [A-Z] is ASCII only
ReDigit(c) == c \in AsciiDigit \cup NonAsciiDigit
ReAZ(c) == c \in AsciiUpper

---------------------------------------------------------------------------
(* Regular expressions of the two routines, as lists of zones              *)
(* <<class, min, max>>: "L" is [A-Z], "D" is \d.                           *)

\* ANPRModel.plate_pattern: ^[A-Z]{2}\d{1,2}[A-Z]{1,2}\d{1,4}[A-Z]?$
plate_pattern ==
    << <<"L", 2, 2>>, <<"D", 1, 2>>, <<"L", 1, 2>>, <<"D", 1, 4>>, <<"L", 0, 1>> >>

\* ANPRBackend plate_pattern: [A-Z]{2}\d{1,2}[A-Z]{1,2}\d{1,4}, not anchored
backend_plate_pattern ==
    << <<"L", 2, 2>>, <<"D", 1, 2>>, <<"L", 1, 2>>, <<"D", 1, 4>> >>

InClass(c, cls) == IF cls = "L" THEN ReAZ(c) ELSE ReDigit(c)

\* the k characters of s from position pos on are all of class cls
AllIn(s, pos, k, cls) ==
    /\ pos + k - 1 <= Len(s)
    /\ \A j \in pos..(pos + k - 1) : InClass(s[j], cls)

\* The end (one past the last matched position) of the match the backtracking
\* matcher finds for the zones z.. of pat at position pos of s, 0 when none:
\* each quantifier is greedy, so the longest repetition that lets the rest
\* match is taken first.  With anchored, the match must end at the end of s
\* ($; s holds no line break).
RECURSIVE MatchEnd(_, _, _, _, _)
MatchEnd(s, pat, pos, z, anchored) ==
    IF z > Len(pat)
    THEN IF anchored /\ pos # Len(s) + 1 THEN 0 ELSE pos
    ELSE LET cls == pat[z][1]
             ks  == { k \in pat[z][2]..pat[z][3] :
                        /\ AllIn(s, pos, k, cls)
                        /\ MatchEnd(s, pat, pos + k, z + 1, anchored) # 0 }
         IN  IF ks = {} THEN 0
             ELSE MatchEnd(s, pat,
                           pos + (CHOOSE k \in ks : \A m \in ks : m <= k),
                           z + 1, anchored)

\* re_match_plate with the pattern's closing $ lost: a match of a prefix counts
re_match_plate_prefix(s) == MatchEnd(s, plate_pattern, 1, 1, FALSE) # 0

\* re.match(self.plate_pattern, processed_text): the pattern carries ^ and $
re_match_plate(s) == MatchEnd(s, plate_pattern, 1, 1, TRUE) # 0

\* re.findall(plate_pattern, text): the matches[0] the backend returns is the
\* leftmost match; <<>> stands for an empty list of matches
findall_first(s) ==
    LET starts == { p \in 1..Len(s) : MatchEnd(s, backend_plate_pattern, p, 1, FALSE) # 0 }
    IN  IF starts = {} THEN <<>>
        ELSE LET p == CHOOSE q \in starts : \A r \in starts : q <= r
                 e == MatchEnd(s, backend_plate_pattern, p, 1, FALSE)
             IN  SubSeq(s, p, e - 1)

---------------------------------------------------------------------------
(* ANPRModel._post_process_text                                            *)

\* self.corrections (letter -> digit)
corrections ==
    ("O" :> "0") @@ ("I" :> "1") @@ ("Z" :> "2") @@ ("S" :> "5") @@
    ("B" :> "8") @@ ("D" :> "0") @@ ("Q" :> "0") @@ ("T" :> "7")

\* the local digit_to_letter table (digit -> letter)
digit_to_letter ==
    ("0" :> "O") @@ ("1" :> "I") @@ ("2" :> "Z") @@ ("4" :> "A") @@
    ("5" :> "S") @@ ("6" :> "G") @@ ("7" :> "T") @@ ("8" :> "B")

\* digit_to_letter.get(char, char)
DigitToLetterGet(char) ==
    IF char \in DOMAIN digit_to_letter THEN digit_to_letter[char] ELSE char

\* the fixed index cutoffs of the loop and the lengths the routine compares with
StateZoneEnd == 2
RegionZoneEnd == 4
SeriesZoneEnd == 6
LongPlateLen == 8
MinLen == 4
FallbackMinLen == 6

\* CorrectChar with the series-zone test written len(text) >= 8
CorrectCharLongFrom8(i, char, n) ==
    IF i < StateZoneEnd
    THEN IF isdigit(char) THEN DigitToLetterGet(char) ELSE char
    ELSE IF i < RegionZoneEnd
    THEN IF isalpha(char) /\ char \in DOMAIN corrections THEN corrections[char] ELSE char
    ELSE IF i < SeriesZoneEnd
    THEN IF isdigit(char) /\ n >= LongPlateLen THEN DigitToLetterGet(char) ELSE char
    ELSE IF isalpha(char) /\ char \in DOMAIN corrections THEN corrections[char] ELSE char

\* one pass of the loop body: the character appended to processed_text for the
\* character char at (0-based) index i of a cleaned text of length n
CorrectChar(i, char, n) ==
    IF i < StateZoneEnd
    THEN IF isdigit(char) THEN DigitToLetterGet(char) ELSE char
    ELSE IF i < RegionZoneEnd
    THEN IF isalpha(char) /\ char \in DOMAIN corrections THEN corrections[char] ELSE char
    ELSE IF i < SeriesZoneEnd
    THEN IF isdigit(char) /\ n > LongPlateLen THEN DigitToLetterGet(char) ELSE char
    ELSE IF isalpha(char) /\ char \in DOMAIN corrections THEN corrections[char] ELSE char

\* text = ''.join(c for c in text if c.isalnum()); text = text.upper()
CleanText(t) == upper(SelectSeq(t, isalnum))

\* the for loop over enumerate(text)
CorrectText(cleaned) ==
    [ j \in 1..Len(cleaned) |-> CorrectChar(j - 1, cleaned[j], Len(cleaned)) ]

\* PlateFallback with "or" between the digit test and the letter test
PlateFallbackEither(processed) ==
    /\ Len(processed) >= FallbackMinLen
    /\ \/ \E j \in 1..Len(processed) : isdigit(processed[j])
       \/ \E j \in 1..Len(processed) : isalpha(processed[j])

\* PlateFallback with the length test off by one: 5 characters are enough
PlateFallbackFrom5(processed) ==
    /\ Len(processed) + 1 >= FallbackMinLen
    /\ \E j \in 1..Len(processed) : isdigit(processed[j])
    /\ \E j \in 1..Len(processed) : isalpha(processed[j])

\* the validation after the loop: the pattern, then the fallback
PlateFallback(processed) ==
    /\ Len(processed) >= FallbackMinLen
    /\ \E j \in 1..Len(processed) : isdigit(processed[j])
    /\ \E j \in 1..Len(processed) : isalpha(processed[j])

ValidateText(processed) ==
    IF re_match_plate(processed) THEN processed
    ELSE IF PlateFallback(processed) THEN processed
    ELSE <<>>

TooShort(cleaned) == Len(cleaned) < MinLen

\* LookupGuard without the membership test: every letter is looked up
LookupGuardAlpha(char) == isalpha(char)

\* the test of lines 174 and 190 that stands before self.corrections[char]
LookupGuard(char) == isalpha(char) /\ char \in DOMAIN corrections

\* the indices whose branch of the loop reads self.corrections (elif i < 4, else)
InDigitZone(i) == (i >= StateZoneEnd /\ i < RegionZoneEnd) \/ i >= SeriesZoneEnd

\* self.corrections[char] raises KeyError for the character char at index i:
\* the subscript is evaluated for a key the dictionary does not hold
KeyError(i, char) ==
    InDigitZone(i) /\ LookupGuard(char) /\ char \notin DOMAIN corrections

\* the call _post_process_text(t) ends by an exception instead of a return
Raises(t) ==
    /\ t # <<>>
    /\ LET cleaned == CleanText(t)
       IN  /\ ~TooShort(cleaned)
           /\ \E j \in 1..Len(cleaned) : KeyError(j - 1, cleaned[j])

\* PostProcessCall that hands a too short cleaned text back instead of ""
PostProcessCallKeepShort(t) ==
    IF t = <<>>
    THEN [fn |-> "model", text |-> t, stage |-> "empty",
          cleaned |-> <<>>, processed_text |-> <<>>, out |-> <<>>]
    ELSE LET cleaned == CleanText(t)
         IN  IF TooShort(cleaned)
             THEN [fn |-> "model", text |-> t, stage |-> "short",
                   cleaned |-> cleaned, processed_text |-> <<>>, out |-> cleaned]
             ELSE LET processed == CorrectText(cleaned)
                  IN  [fn |-> "model", text |-> t,
                       stage |-> IF re_match_plate(processed) THEN "matched"
                                 ELSE IF PlateFallback(processed) THEN "fallback"
                                 ELSE "rejected",
                       cleaned |-> cleaned, processed_text |-> processed,
                       out |-> ValidateText(processed)]

\* the locals and the result of one call; stage is the return statement taken:
\* "empty" (line 142), "short" (152), "matched" (197), "fallback" (204),
\* "rejected" (206)
PostProcessCall(t) ==
    IF t = <<>>
    THEN [fn |-> "model", text |-> t, stage |-> "empty",
          cleaned |-> <<>>, processed_text |-> <<>>, out |-> <<>>]
    ELSE LET cleaned == CleanText(t)
         IN  IF TooShort(cleaned)
             THEN [fn |-> "model", text |-> t, stage |-> "short",
                   cleaned |-> cleaned, processed_text |-> <<>>, out |-> <<>>]
             ELSE LET processed == CorrectText(cleaned)
                  IN  [fn |-> "model", text |-> t,
                       stage |-> IF re_match_plate(processed) THEN "matched"
                                 ELSE IF PlateFallback(processed) THEN "fallback"
                                 ELSE "rejected",
                       cleaned |-> cleaned, processed_text |-> processed,
                       out |-> ValidateText(processed)]

post_process_text(t) == PostProcessCall(t).out

---------------------------------------------------------------------------
(* ANPRBackend._post_process_plate_text                                    *)

BackendMinLen == 6

\* re.sub(r'[^A-Z0-9]', '', text.upper())
BackendKeep(c) == c \in AsciiUpper \cup AsciiDigit
BackendClean(t) == SelectSeq(upper(t), BackendKeep)

\* text.replace('0', 'O').replace('1', 'I').replace('8', 'B')
BackendReplaceChar(c) ==
    IF c = "0" THEN "O" ELSE IF c = "1" THEN "I" ELSE IF c = "8" THEN "B" ELSE c
BackendReplace(s) == [ j \in 1..Len(s) |-> BackendReplaceChar(s[j]) ]

BackendPostProcessCall(t) ==
    LET cleaned == BackendClean(t)
    IN  IF Len(cleaned) >= BackendMinLen
        THEN LET replaced == BackendReplace(cleaned)
                 first    == findall_first(replaced)
             IN  [fn |-> "backend", text |-> t,
                  stage |-> IF first # <<>> THEN "matched" ELSE "unmatched",
                  cleaned |-> cleaned, processed_text |-> replaced,
                  out |-> IF first # <<>> THEN first ELSE replaced]
        ELSE [fn |-> "backend", text |-> t, stage |-> "short",
              cleaned |-> cleaned, processed_text |-> cleaned, out |-> cleaned]

post_process_plate_text(t) == BackendPostProcessCall(t).out

---------------------------------------------------------------------------
(* The OCR engine reads a raw text character by character; the text is     *)
(* then handed to one of the two post-processing routines.                 *)

\* characters of the texts of up to MaxLen characters: a letter of the
\* corrections table, a digit of the digit_to_letter table (one of the three
\* the backend replaces) and a digit outside both
PlateChars == { "B", "8", "3" }
\* further characters of the texts of up to MaxNoisyLen characters: a
\* lower-case letter (outside the corrections table), a separator and a
\* non-ASCII letter
NoiseChars == { "m", "-", "u00e9" }
\* further character of the texts of up to MaxMarkLen characters: a letter
\* whose upper case ends in a combining mark
MarkChars == { "u01f0" }

NoCall == [fn |-> "none", text |-> <<>>, stage |-> "none",
           cleaned |-> <<>>, processed_text |-> <<>>, out |-> <<>>]
NoRet == [fn |-> "none", text |-> <<>>, conf |-> 0]

IsNoisy(t) == \E j \in 1..Len(t) : t[j] \in NoiseChars
HasMark(t) == \E j \in 1..Len(t) : t[j] \in MarkChars

OcrRead(c) ==
    /\ pp.fn = "none"
    /\ Len(text) < MaxLen
    /\ (c \in NoiseChars \/ IsNoisy(text)) => Len(text) < MaxNoisyLen
    /\ (c \in MarkChars \/ HasMark(text)) => Len(text) < MaxMarkLen
    /\ text' = Append(text, c)
    /\ UNCHANGED <<pp, results_processed, results_original, results_gray, result, ret>>
    /\ UNCHANGED appVars

PostProcessText ==
    /\ pp.fn = "none"
    /\ pp' = PostProcessCall(text)
    /\ UNCHANGED <<text, results_processed, results_original, results_gray, result, ret>>
    /\ UNCHANGED appVars

PostProcessPlateText ==
    /\ pp.fn = "none"
    /\ pp' = BackendPostProcessCall(text)
    /\ UNCHANGED <<text, results_processed, results_original, results_gray, result, ret>>
    /\ UNCHANGED appVars

---------------------------------------------------------------------------
(* Plate recognition.  An OCR result is a record [text, conf] (its         *)
(* bounding box is not read); conf is a confidence level in 0..MaxConf,    *)
(* and level 0 is the confidence 0.0.                                      *)

\* raw texts the OCR engine returns for an image of a plate
SampleTexts ==
    { << "A", "B" >>,
      << "K", "A", "0", "5", "M", "N", "1", "2", "3", "4" >>,
      << "X", "Y", "1", "2", "3", "4" >>,
      << "-", "-" >> }

Confidences == 0..MaxConf

\* the two routines on the sample texts, evaluated once for each text
ModelSampleTable == [ t \in SampleTexts |-> post_process_text(t) ]
BackendSampleTable == [ t \in SampleTexts |-> post_process_plate_text(t) ]

\* self._post_process_text(text), as recognize_plate calls it
ModelText(t) ==
    IF t \in SampleTexts THEN ModelSampleTable[t] ELSE post_process_text(t)

\* self._post_process_plate_text(text), as recognize_plate calls it
BackendText(t) ==
    IF t \in SampleTexts THEN BackendSampleTable[t] ELSE post_process_plate_text(t)

TotalResults ==
    Len(results_processed) + Len(results_original) + Len(results_gray) + Len(result)

\* SortInsert that goes before the elements of equal confidence: a sort that
\* reverses the order of ties
SortInsertBeforeEqual(sorted, x) ==
    LET k == Cardinality({ j \in 1..Len(sorted) : sorted[j].conf > x.conf })
    IN  SubSeq(sorted, 1, k) \o << x >> \o SubSeq(sorted, k + 1, Len(sorted))

\* list.sort(key=lambda x: x[1], reverse=True): stable, so candidates of equal
\* confidence keep their order; an element goes after every element whose
\* confidence is at least its own
SortInsert(sorted, x) ==
    LET k == Cardinality({ j \in 1..Len(sorted) : sorted[j].conf >= x.conf })
    IN  SubSeq(sorted, 1, k) \o << x >> \o SubSeq(sorted, k + 1, Len(sorted))

RECURSIVE SortByConfidence(_)
SortByConfidence(s) ==
    IF s = <<>> THEN <<>>
    ELSE SortInsert(SortByConfidence(SubSeq(s, 1, Len(s) - 1)), s[Len(s)])

\* the loop of ANPRModel.recognize_plate that builds candidates
RECURSIVE Candidates(_)
Candidates(all_results) ==
    IF all_results = <<>> THEN <<>>
    ELSE LET processed_text == ModelText(Head(all_results).text)
         IN  (IF processed_text # <<>>
              THEN << [text |-> processed_text, conf |-> Head(all_results).conf] >>
              ELSE <<>>) \o Candidates(Tail(all_results))

AllResults == results_processed \o results_original \o results_gray

\* ModelRecognize that returns the confidence of the first OCR result when no
\* candidate is left
ModelRecognizeKeepConf(all_results) ==
    IF all_results = <<>>
    THEN [fn |-> "model", text |-> <<>>, conf |-> 0]
    ELSE LET candidates == SortByConfidence(Candidates(all_results))
         IN  IF candidates # <<>>
             THEN [fn |-> "model", text |-> candidates[1].text, conf |-> candidates[1].conf]
             ELSE [fn |-> "model", text |-> <<>>, conf |-> all_results[1].conf]

\* ModelRecognize without the sort: the first candidate in reading order
ModelRecognizeUnsorted(all_results) ==
    IF all_results = <<>>
    THEN [fn |-> "model", text |-> <<>>, conf |-> 0]
    ELSE LET candidates == Candidates(all_results)
         IN  IF candidates # <<>>
             THEN [fn |-> "model", text |-> candidates[1].text, conf |-> candidates[1].conf]
             ELSE [fn |-> "model", text |-> <<>>, conf |-> 0]

\* ANPRModel.recognize_plate, from the three OCR readings on
ModelRecognize(all_results) ==
    IF all_results = <<>>
    THEN [fn |-> "model", text |-> <<>>, conf |-> 0]
    ELSE LET candidates == SortByConfidence(Candidates(all_results))
         IN  IF candidates # <<>>
             THEN [fn |-> "model", text |-> candidates[1].text, conf |-> candidates[1].conf]
             ELSE [fn |-> "model", text |-> <<>>, conf |-> 0]

\* max(texts_and_confidences, key=lambda x: x[1]): the first of the maximal ones
MaxByConfidence(s) ==
    s[CHOOSE i \in 1..Len(s) :
        /\ \A j \in 1..Len(s) : s[j].conf <= s[i].conf
        /\ \A j \in 1..(i - 1) : s[j].conf < s[i].conf]

\* BackendRecognize that post-processes the text of the first OCR result and
\* pairs it with the highest confidence
BackendRecognizeFirstText(res) ==
    IF res = <<>>
    THEN [fn |-> "backend", text |-> <<>>, conf |-> 0]
    ELSE LET best == MaxByConfidence(res)
         IN  [fn |-> "backend", text |-> BackendText(res[1].text),
              conf |-> best.conf]

\* ANPRBackend.recognize_plate, from the OCR reading on
BackendRecognize(res) ==
    IF res = <<>>
    THEN [fn |-> "backend", text |-> <<>>, conf |-> 0]
    ELSE LET best == MaxByConfidence(res)
         IN  [fn |-> "backend", text |-> BackendText(best.text),
              conf |-> best.conf]

\* the reader of ANPRModel returns one more result for one of its three images
ReadText(img, t, c) ==
    /\ ret.fn = "none"
    /\ result = <<>>
    /\ TotalResults < MaxResults
    /\ results_processed' =
         IF img = "processed" THEN Append(results_processed, [text |-> t, conf |-> c])
         ELSE results_processed
    /\ results_original' =
         IF img = "original" THEN Append(results_original, [text |-> t, conf |-> c])
         ELSE results_original
    /\ results_gray' =
         IF img = "gray" THEN Append(results_gray, [text |-> t, conf |-> c])
         ELSE results_gray
    /\ UNCHANGED <<text, pp, result, ret>>
    /\ UNCHANGED appVars

\* the reader of ANPRBackend returns one more result for the enhanced crop
BackendReadText(t, c) ==
    /\ ret.fn = "none"
    /\ AllResults = <<>>
    /\ TotalResults < MaxResults
    /\ result' = Append(result, [text |-> t, conf |-> c])
    /\ UNCHANGED <<text, pp, results_processed, results_original, results_gray, ret>>
    /\ UNCHANGED appVars

RecognizePlate ==
    /\ ret.fn = "none"
    /\ result = <<>>
    /\ ret' = ModelRecognize(AllResults)
    /\ UNCHANGED <<text, pp, results_processed, results_original, results_gray, result>>
    /\ UNCHANGED appVars

BackendRecognizePlate ==
    /\ ret.fn = "none"
    /\ AllResults = <<>>
    /\ ret' = BackendRecognize(result)
    /\ UNCHANGED <<text, pp, results_processed, results_original, results_gray, result>>
    /\ UNCHANGED appVars

---------------------------------------------------------------------------
(* One ANPRModel object called again and again.  The recognition reads the *)
(* attributes corrections and plate_pattern of the object it is called on. *)

\* invocations of recognize_plate on one object
MaxCalls == 3

\* ANPRModel.__init__: the attributes the recognition reads
NewModel == [corrections |-> corrections, plate_pattern |-> plate_pattern]

\* the loop body of _post_process_text on the object self
CorrectCharSelf(self, i, char, n) ==
    IF i < StateZoneEnd
    THEN IF isdigit(char) THEN DigitToLetterGet(char) ELSE char
    ELSE IF i < RegionZoneEnd
    THEN IF isalpha(char) /\ char \in DOMAIN self.corrections
         THEN self.corrections[char] ELSE char
    ELSE IF i < SeriesZoneEnd
    THEN IF isdigit(char) /\ n > LongPlateLen THEN DigitToLetterGet(char) ELSE char
    ELSE IF isalpha(char) /\ char \in DOMAIN self.corrections
         THEN self.corrections[char] ELSE char

\* self._post_process_text(t)
PostProcessTextSelf(self, t) ==
    IF t = <<>> THEN <<>>
    ELSE LET cleaned == CleanText(t)
         IN  IF TooShort(cleaned) THEN <<>>
             ELSE LET processed ==
                        [ j \in 1..Len(cleaned) |->
                            CorrectCharSelf(self, j - 1, cleaned[j], Len(cleaned)) ]
                  IN  IF MatchEnd(processed, self.plate_pattern, 1, 1, TRUE) # 0
                      THEN processed
                      ELSE IF PlateFallback(processed) THEN processed
                      ELSE <<>>

\* self.recognize_plate, from the combined OCR results on
RecognizePlateSelf(self, all_results) ==
    IF all_results = <<>>
    THEN [text |-> <<>>, conf |-> 0]
    ELSE LET processed ==
               [ k \in 1..Len(all_results) |->
                   [text |-> PostProcessTextSelf(self, all_results[k].text),
                    conf |-> all_results[k].conf] ]
             candidates ==
               SortByConfidence(SelectSeq(processed, LAMBDA x : x.text # <<>>))
         IN  IF candidates # <<>>
             THEN [text |-> candidates[1].text, conf |-> candidates[1].conf]
             ELSE [text |-> <<>>, conf |-> 0]

\* ObjectAfterCall for a recognition that drops from the table the correction
\* of the letter it has just applied most often in plates, B
ObjectAfterCallForgets(self) ==
    [self EXCEPT !.corrections =
        [ c \in DOMAIN self.corrections \ {"B"} |-> self.corrections[c] ]]

\* the object after a call of recognize_plate: neither recognize_plate nor
\* _post_process_text assigns an attribute of self
ObjectAfterCall(self) == self

\* OCR results of the calls: a plate with a B in a digit zone, a valid plate,
\* a text that is too short, a separator
CallTexts ==
    { << "M", "H", "2", "B", "1", "2", "3", "4" >>,
      << "K", "A", "0", "5", "M", "N", "1", "2", "3", "4" >>,
      << "A", "B" >>,
      << "-", "-" >> }

\* the combined OCR results of one call: none, one, or two of one confidence
\* in both orders
SampleCalls ==
    {<<>>}
    \cup { << [text |-> t, conf |-> MaxConf] >> : t \in CallTexts }
    \cup { << [text |-> q[1], conf |-> MaxConf], [text |-> q[2], conf |-> MaxConf] >> :
              q \in { r \in (CallTexts \ { << "-", "-" >> })
                              \X (CallTexts \ { << "-", "-" >> }) : r[1] # r[2] } }

\* one call model_obj.recognize_plate(image), the OCR results of the image
\* being all_results
RecognizeCall(all_results) ==
    /\ Len(calls) < MaxCalls
    /\ calls' = Append(calls, [input |-> all_results,
                               output |-> RecognizePlateSelf(model_obj, all_results)])
    /\ model_obj' = ObjectAfterCall(model_obj)
    /\ UNCHANGED <<normalizerVars, cameraVars, windowVars, handlerVars, evalVars>>

---------------------------------------------------------------------------
(* ModelHandler (integrated_anpr/models/model_handler.py): recognize_plate *)
(* reads the plate region with the OCR engine, keeps the alphanumeric      *)
(* characters of the most confident result and returns the text when       *)
(* _is_valid_plate accepts it, None otherwise.                             *)

\* OCR results of one plate region
MaxHandlerResults == 2

\* len(text) < 5 in _is_valid_plate
HandlerMinLen == 5

\* raw texts the OCR engine returns for a plate region: texts of fewer than
\* five characters, before and after the cleaning, and texts of five or more
\* with no, one or several letters and digits
HandlerTexts ==
    { << "A", "B", "1" >>,
      << "A", "B", "-", "1", "2" >>,
      << "A", "B", "C", "D", "E" >>,
      << "1", "2", "3", "4", "5" >>,
      << "A", "B", "C", "D", "1" >>,
      << "A", "1", "2", "3", "4" >>,
      << "a", "b", " ", "1", "2", "3" >>,
      << "K", "A", "0", "5", "M", "N", "1", "2", "3", "4" >> }

NoHandlerCall ==
    [fn |-> "none", results |-> <<>>, text |-> <<>>, valid |-> FALSE,
     out |-> [none |-> TRUE, text |-> <<>>]]

\* any(c.isalpha() for c in text), any(c.isdigit() for c in text)
has_letters(t) == \E j \in 1..Len(t) : isalpha(t[j])
has_numbers(t) == \E j \in 1..Len(t) : isdigit(t[j])

\* ModelHandler._is_valid_plate
is_valid_plate(t) ==
    IF Len(t) < HandlerMinLen THEN FALSE
    ELSE has_letters(t) /\ has_numbers(t)

\* ModelHandler.recognize_plate; has_region tells whether extract_plate_region
\* returned an image, res is reader.readtext(plate_img)
HandlerRecognize(has_region, res) ==
    IF ~has_region \/ res = <<>>
    THEN [fn |-> "recognize_plate", results |-> res, text |-> <<>>, valid |-> FALSE,
          out |-> [none |-> TRUE, text |-> <<>>]]
    ELSE LET best_result == MaxByConfidence(res)
             cleaned     == SelectSeq(best_result.text, isalnum)
             accepted    == is_valid_plate(cleaned)
         IN  [fn |-> "recognize_plate", results |-> res, text |-> cleaned,
              valid |-> accepted,
              out |-> IF accepted THEN [none |-> FALSE, text |-> cleaned]
                      ELSE [none |-> TRUE, text |-> <<>>]]

\* the OCR engine returns one more result for the plate region
HandlerReadText(t, c) ==
    /\ mh.fn = "none"
    /\ Len(mh.results) < MaxHandlerResults
    /\ mh' = [mh EXCEPT !.results = Append(@, [text |-> t, conf |-> c])]
    /\ UNCHANGED <<normalizerVars, objectVars, cameraVars, windowVars, evalVars>>

\* recognize_plate is called for the plate region
HandlerRecognizePlate(has_region) ==
    /\ mh.fn = "none"
    /\ mh' = HandlerRecognize(has_region, mh.results)
    /\ UNCHANGED <<normalizerVars, objectVars, cameraVars, windowVars, evalVars>>

---------------------------------------------------------------------------
(* The camera window: MainWindow (ui_mainwindow.py) starts a CameraThread  *)
(* (camera_thread.py) whose run() reads frames, hands every second one to  *)
(* ANPRBackend.process_frame and emits each frame to the slot              *)
(* MainWindow.on_frame_ready, which runs in the GUI thread and calls       *)
(* process_frame on the same ANPRBackend object.  A frame is the record    *)
(* [plate, ocr]: whether the detectors find a plate in it, and the OCR     *)
(* results of that plate.  The contents of the display labels are left     *)
(* out.                                                                    *)

\* frames the thread reads before the capture runs dry
MaxFrames == 3
\* frames emitted and not yet delivered
MaxQueue == 2

\* self.skip_frames
SkipFrames == 2

\* the two threads that call process_frame
Callers == { "worker", "gui" }

NoFrame == [plate |-> FALSE, ocr |-> <<>>, none |-> TRUE]

\* no results of process_frame (None)
NoResults == [plates |-> 0, text |-> <<>>, conf |-> 0, none |-> TRUE]

\* frames of the capture: one without a plate, one whose most confident OCR
\* result is a separator, one with a single result
SampleFrames ==
    { [plate |-> FALSE, ocr |-> <<>>, none |-> FALSE],
      [plate |-> TRUE, none |-> FALSE,
       ocr |-> << [text |-> << "-", "-" >>, conf |-> 2],
                  [text |-> << "K", "A", "0", "5", "M", "N", "1", "2", "3", "4" >>,
                   conf |-> 1] >>],
      [plate |-> TRUE, none |-> FALSE,
       ocr |-> << [text |-> << "X", "Y", "1", "2", "3", "4" >>, conf |-> 1] >>] }

\* no CameraThread object
NoThread ==
    [pc |-> "none", running |-> FALSE, frame |-> NoFrame, capture |-> "None",
     handle |-> "none", frame_count |-> 0, local_frame |-> NoFrame,
     anpr_backend |-> FALSE, reads |-> 0, read_failed |-> FALSE, processed |-> {}]

\* CameraThread.__init__; handle is the state of the cv2.VideoCapture the
\* attribute _capture (here capture) refers to, local_frame the local frame
\* of run().  Three fields record what run() has done: reads counts the
\* frames read successfully, read_failed tells whether a read has failed,
\* processed holds the number (first, second, ...) of every successfully
\* read frame that was handed to process_frame.
NewThread ==
    [pc |-> "new", running |-> FALSE, frame |-> NoFrame, capture |-> "None",
     handle |-> "none", frame_count |-> 0, local_frame |-> NoFrame,
     anpr_backend |-> FALSE, reads |-> 0, read_failed |-> FALSE, processed |-> {}]

\* MainWindow.__init__.  threads counts the CameraThread objects that were
\* created and not yet waited for and dropped, last names the handler that
\* ran last, closing tells that stop_camera was called by closeEvent.
NewMainWindow ==
    [pc |-> "idle", camera_thread |-> "None", frame |-> NoFrame,
     last_detection |-> NoResults,
     start_button |-> TRUE, stop_button |-> FALSE, capture_button |-> FALSE,
     threads |-> 0, last |-> "init", closing |-> FALSE]

\* a caller outside process_frame, and the locals of recognize_plate unset
IdleCall == [pc |-> "idle", input |-> NoFrame, out |-> NoResults]
NoLocals == [result |-> <<>>, text |-> <<>>, conf |-> 0]

\* CallFrame that gives every caller the locals of the worker's call
CallFrameShared(p) == "worker"

\* the frame of local variables (result, text, conf) of the recognize_plate
\* call of caller p: every call has its own
CallFrame(p) == p

\* process_frame(frame) up to the call of recognize_plate: without a plate the
\* result holds no plate entry
BeginCall(p, f) ==
    IF f.plate
    THEN [pc |-> "ocr", input |-> f, out |-> NoResults]
    ELSE [pc |-> "done", input |-> f, out |-> [plates |-> 0, text |-> <<>>, conf |-> 0]]

\* recognize_plate: result = self.ocr.readtext(enhanced), and the early return
OcrStep(p) ==
    /\ rp[p].pc = "ocr"
    /\ locals' = [locals EXCEPT ![CallFrame(p)].result = rp[p].input.ocr]
    /\ rp' = [rp EXCEPT ![p] =
                IF rp[p].input.ocr = <<>>
                THEN [@ EXCEPT !.pc = "done",
                               !.out = [plates |-> 1, text |-> <<>>, conf |-> 0]]
                ELSE [@ EXCEPT !.pc = "best"]]
    /\ UNCHANGED <<cam, queue, mw>>
    /\ UNCHANGED <<normalizerVars, objectVars, windowVars, handlerVars, evalVars>>

\* recognize_plate: the texts and confidences of result are collected; with
\* none the call returns ("", 0.0); text, conf = max(..., key=lambda x: x[1])
BestStep(p) ==
    /\ rp[p].pc = "best"
    /\ IF locals[CallFrame(p)].result = <<>>
       THEN /\ rp' = [rp EXCEPT ![p].pc = "done",
                                ![p].out = [plates |-> 1, text |-> <<>>, conf |-> 0]]
            /\ UNCHANGED locals
       ELSE /\ LET best == MaxByConfidence(locals[CallFrame(p)].result)
               IN  locals' = [locals EXCEPT ![CallFrame(p)].text = best.text,
                                            ![CallFrame(p)].conf = best.conf]
            /\ rp' = [rp EXCEPT ![p].pc = "post"]
    /\ UNCHANGED <<cam, queue, mw>>
    /\ UNCHANGED <<normalizerVars, objectVars, windowVars, handlerVars, evalVars>>

\* recognize_plate: text = self._post_process_plate_text(text); return text, conf
PostStep(p) ==
    /\ rp[p].pc = "post"
    /\ LET processed == BackendText(locals[CallFrame(p)].text)
       IN  /\ locals' = [locals EXCEPT ![CallFrame(p)].text = processed]
           /\ rp' = [rp EXCEPT ![p].pc = "done",
                               ![p].out = [plates |-> 1, text |-> processed,
                                           conf |-> locals[CallFrame(p)].conf]]
    /\ UNCHANGED <<cam, queue, mw>>
    /\ UNCHANGED <<normalizerVars, objectVars, windowVars, handlerVars, evalVars>>

\* start_camera that creates a thread whether or not there is one
NoCameraThreadAlways(m) == TRUE

\* start_camera: if not self.camera_thread
NoCameraThread(m) == m.camera_thread = "None"

\* MainWindow.start_camera, called while the GUI thread is free (a click on
\* the start button calls it only while the button is enabled)
StartCamera ==
    /\ mw.pc = "idle"
    /\ IF NoCameraThread(mw)
       THEN /\ cam' = [NewThread EXCEPT !.anpr_backend = TRUE, !.pc = "open"]
            /\ mw' = [mw EXCEPT !.camera_thread = "set", !.start_button = FALSE,
                                !.stop_button = TRUE, !.capture_button = TRUE,
                                !.threads = @ + 1, !.last = "start_camera"]
       ELSE /\ mw' = [mw EXCEPT !.last = "start_camera_noop"]
            /\ UNCHANGED cam
    /\ UNCHANGED <<queue, rp, locals>>
    /\ UNCHANGED <<normalizerVars, objectVars, windowVars, handlerVars, evalVars>>

\* MainWindow.stop_camera, called while the GUI thread is free, up to the
\* wait() of CameraThread.stop: running = False, then the GUI thread blocks
StopCamera ==
    /\ mw.pc = "idle"
    /\ IF mw.camera_thread # "None"
       THEN /\ cam' = [cam EXCEPT !.running = FALSE]
            /\ mw' = [mw EXCEPT !.pc = "waiting", !.last = "stop_camera"]
       ELSE /\ mw' = [mw EXCEPT !.last = "stop_camera_noop"]
            /\ UNCHANGED cam
    /\ UNCHANGED <<queue, rp, locals>>
    /\ UNCHANGED <<normalizerVars, objectVars, windowVars, handlerVars, evalVars>>

\* MainWindow.closeEvent: self.stop_camera(), up to its wait(); without a
\* thread the event is accepted at once and the window is closed
CloseEvent ==
    /\ mw.pc = "idle"
    /\ IF mw.camera_thread # "None"
       THEN /\ cam' = [cam EXCEPT !.running = FALSE]
            /\ mw' = [mw EXCEPT !.pc = "waiting", !.closing = TRUE,
                                !.last = "closeEvent"]
       ELSE /\ mw' = [mw EXCEPT !.pc = "closed", !.last = "closeEvent"]
            /\ UNCHANGED cam
    /\ UNCHANGED <<queue, rp, locals>>
    /\ UNCHANGED <<normalizerVars, objectVars, windowVars, handlerVars, evalVars>>

\* wait() returns when run() has ended; the rest of stop_camera, and of
\* closeEvent when it was the caller
StopCameraReturn ==
    /\ mw.pc = "waiting"
    /\ cam.pc = "finished"
    /\ mw' = [mw EXCEPT !.pc = IF mw.closing THEN "closed" ELSE "idle",
                        !.camera_thread = "None",
                        !.start_button = TRUE, !.stop_button = FALSE,
                        !.capture_button = FALSE,
                        !.threads = @ - 1]
    /\ UNCHANGED <<cam, queue, rp, locals>>
    /\ UNCHANGED <<normalizerVars, objectVars, windowVars, handlerVars, evalVars>>

\* MainWindow.on_frame_ready up to the call of process_frame: the slot takes
\* the oldest emitted frame when the GUI thread is free
OnFrameReady ==
    /\ mw.pc = "idle"
    /\ queue # <<>>
    /\ mw' = [mw EXCEPT !.pc = "slot", !.frame = Head(queue)]
    /\ rp' = [rp EXCEPT !["gui"] = BeginCall("gui", Head(queue))]
    /\ queue' = Tail(queue)
    /\ UNCHANGED <<cam, locals>>
    /\ UNCHANGED <<normalizerVars, objectVars, windowVars, handlerVars, evalVars>>

\* the rest of on_frame_ready, once process_frame has returned
OnFrameReadyReturn ==
    /\ mw.pc = "slot"
    /\ rp["gui"].pc = "done"
    /\ mw' = [mw EXCEPT !.pc = "idle", !.last_detection = rp["gui"].out]
    /\ rp' = [rp EXCEPT !["gui"] = IdleCall]
    /\ UNCHANGED <<cam, queue, locals>>
    /\ UNCHANGED <<normalizerVars, objectVars, windowVars, handlerVars, evalVars>>

\* run(): self._capture = cv2.VideoCapture(self.source) and the isOpened test;
\* a source that does not open raises RuntimeError
RunOpen(opened) ==
    /\ cam.pc = "open"
    /\ cam' = [cam EXCEPT !.capture = "set",
                          !.handle = IF opened THEN "open" ELSE "closed",
                          !.pc = IF opened THEN "opened" ELSE "except"]
    /\ UNCHANGED <<queue, mw, rp, locals>>
    /\ UNCHANGED <<normalizerVars, objectVars, windowVars, handlerVars, evalVars>>

\* run(): self.running = True
RunSetRunning ==
    /\ cam.pc = "opened"
    /\ cam' = [cam EXCEPT !.running = TRUE, !.pc = "loop"]
    /\ UNCHANGED <<queue, mw, rp, locals>>
    /\ UNCHANGED <<normalizerVars, objectVars, windowVars, handlerVars, evalVars>>

\* run(): while self.running
RunLoopTest ==
    /\ cam.pc = "loop"
    /\ cam' = [cam EXCEPT !.pc = IF cam.running THEN "read" ELSE "finally"]
    /\ UNCHANGED <<queue, mw, rp, locals>>
    /\ UNCHANGED <<normalizerVars, objectVars, windowVars, handlerVars, evalVars>>

\* the test before process_frame that lets every frame through
ShouldProcessEvery(c) == c.anpr_backend

\* run(): if self.anpr_backend and self.frame_count % self.skip_frames == 0
ShouldProcess(c) == c.anpr_backend /\ c.frame_count % SkipFrames = 0

\* run(): a frame is read; frame_count += 1; the test before process_frame.
\* A frame is read only while the queue has room for its emission.
RunRead(f) ==
    /\ cam.pc = "read"
    /\ cam.frame_count < MaxFrames
    /\ Len(queue) < MaxQueue
    /\ LET counted == [cam EXCEPT !.frame_count = @ + 1,
                                  !.reads = @ + 1,
                                  !.local_frame = f]
       IN  cam' = [counted EXCEPT !.pc = IF ShouldProcess(counted)
                                         THEN "process" ELSE "emit"]
    /\ UNCHANGED <<queue, mw, rp, locals>>
    /\ UNCHANGED <<normalizerVars, objectVars, windowVars, handlerVars, evalVars>>

\* run(): the read fails; the error signal is emitted and the loop goes on
RunReadFailed ==
    /\ cam.pc = "read"
    /\ cam' = [cam EXCEPT !.pc = "loop", !.read_failed = TRUE]
    /\ UNCHANGED <<queue, mw, rp, locals>>
    /\ UNCHANGED <<normalizerVars, objectVars, windowVars, handlerVars, evalVars>>

\* run(): a statement of the loop raises outside the inner try
RunRaise ==
    /\ cam.pc = "read"
    /\ cam' = [cam EXCEPT !.pc = "except"]
    /\ UNCHANGED <<queue, mw, rp, locals>>
    /\ UNCHANGED <<normalizerVars, objectVars, windowVars, handlerVars, evalVars>>

\* run(): self.anpr_backend.process_frame(frame, self.roi_points) is called
RunProcessFrame ==
    /\ cam.pc = "process"
    /\ cam' = [cam EXCEPT !.pc = "processing",
                          !.processed = @ \cup { cam.reads }]
    /\ rp' = [rp EXCEPT !["worker"] = BeginCall("worker", cam.local_frame)]
    /\ UNCHANGED <<queue, mw, locals>>
    /\ UNCHANGED <<normalizerVars, objectVars, windowVars, handlerVars, evalVars>>

\* run(): process_frame has returned; _draw_detections hands the frame back
RunDraw ==
    /\ cam.pc = "processing"
    /\ rp["worker"].pc = "done"
    /\ cam' = [cam EXCEPT !.pc = "emit"]
    /\ rp' = [rp EXCEPT !["worker"] = IdleCall]
    /\ UNCHANGED <<queue, mw, locals>>
    /\ UNCHANGED <<normalizerVars, objectVars, windowVars, handlerVars, evalVars>>

\* run(): self.frame = frame; self.frame_ready.emit(frame)
RunEmit ==
    /\ cam.pc = "emit"
    /\ cam' = [cam EXCEPT !.frame = cam.local_frame, !.pc = "loop"]
    /\ queue' = Append(queue, cam.local_frame)
    /\ UNCHANGED <<mw, rp, locals>>
    /\ UNCHANGED <<normalizerVars, objectVars, windowVars, handlerVars, evalVars>>

\* run(): except Exception: the error is logged and emitted
RunExcept ==
    /\ cam.pc = "except"
    /\ cam' = [cam EXCEPT !.pc = "finally"]
    /\ UNCHANGED <<queue, mw, rp, locals>>
    /\ UNCHANGED <<normalizerVars, objectVars, windowVars, handlerVars, evalVars>>

\* Cleanup that releases and forgets only a capture that had opened
CleanupIfOpened(c) ==
    [c EXCEPT !.handle = IF c.handle = "open" THEN "released" ELSE c.handle,
              !.capture = IF c.handle = "open" THEN "None" ELSE c.capture,
              !.frame = NoFrame,
              !.running = FALSE]

\* CameraThread._cleanup
Cleanup(c) ==
    [c EXCEPT !.handle = IF c.capture # "None" THEN "released" ELSE c.handle,
              !.capture = "None",
              !.frame = NoFrame,
              !.running = FALSE]

\* run(): finally: self._cleanup(), and run() ends
RunCleanup ==
    /\ cam.pc = "finally"
    /\ cam' = [Cleanup(cam) EXCEPT !.pc = "finished"]
    /\ UNCHANGED <<queue, mw, rp, locals>>
    /\ UNCHANGED <<normalizerVars, objectVars, windowVars, handlerVars, evalVars>>

---------------------------------------------------------------------------
(* The detection windows: ANPRApp (integrated_anpr/main_app.py) and        *)
(* ANPRMainWindow (integrated_anpr/gui/main_window.py).  A window polls a  *)
(* cv2.VideoCapture with a QTimer; its handlers run one at a time in the   *)
(* GUI thread, and a button calls its handler only while it is enabled.    *)
(* cap is "None", or the state of the capture object self.cap refers to:   *)
(* "open", "closed" (it did not open) or "released".  The images and texts *)
(* the labels show are left out; last names the handler that ran last.     *)

\* items of the largest dataset file
MaxData == 3

\* the items of source_combo
Sources(kind) ==
    IF kind = "ANPRApp"
    THEN { "Camera", "Video File", "Image", "Dataset" }
    ELSE { "Camera", "Video File", "Image" }

\* no window yet
NoWindow ==
    [kind |-> "none", timer |-> FALSE, cap |-> "None",
     start_btn |-> FALSE, stop_btn |-> FALSE, source_combo |-> FALSE,
     browse_btn |-> FALSE, browse_dataset_btn |-> FALSE,
     source |-> "Camera", video_path |-> FALSE, image_path |-> FALSE,
     dataset |-> "None", data_len |-> 0, current_dataset_index |-> 0,
     prev_btn |-> FALSE, next_btn |-> FALSE, last |-> "none"]

\* ANPRApp.__init__ / ANPRMainWindow.__init__ with setup_ui: the timer is
\* created and not started, video_path and image_path are not set (hasattr),
\* the first item of source_combo is current; ANPRMainWindow has no dataset
\* widgets, and their fields keep these values
NewWindow(kind) ==
    [kind |-> kind, timer |-> FALSE, cap |-> "None",
     start_btn |-> TRUE, stop_btn |-> FALSE, source_combo |-> TRUE,
     browse_btn |-> TRUE, browse_dataset_btn |-> (kind = "ANPRApp"),
     source |-> "Camera", video_path |-> FALSE, image_path |-> FALSE,
     dataset |-> "None", data_len |-> 0, current_dataset_index |-> 0,
     prev_btn |-> FALSE, next_btn |-> FALSE, last |-> "init"]

\* the four widgets both windows switch, as ANPRMainWindow sets them in
\* start_detection and stop_detection
SetDetectionWidgets(w, is_detecting) ==
    [w EXCEPT !.start_btn = ~is_detecting,
              !.stop_btn = is_detecting,
              !.source_combo = ~is_detecting,
              !.browse_btn = ~is_detecting]

\* ANPRApp.update_ui_state
update_ui_state(w, is_detecting) ==
    [SetDetectionWidgets(w, is_detecting) EXCEPT !.browse_dataset_btn = ~is_detecting]

SetUi(w, is_detecting) ==
    IF w.kind = "ANPRApp" THEN update_ui_state(w, is_detecting)
    ELSE SetDetectionWidgets(w, is_detecting)

\* stop_detection that leaves the timer running
stop_detection_timer_kept(w) ==
    SetUi([w EXCEPT !.cap = IF w.cap = "None" THEN "None" ELSE "released"], FALSE)

\* stop_detection of both windows: the timer is stopped, the capture released
\* when there is one, the widgets set to idle
stop_detection(w) ==
    SetUi([w EXCEPT !.timer = FALSE,
                    !.cap = IF w.cap = "None" THEN "None" ELSE "released"], FALSE)

\* start_detection on a capture source: self.cap = cv2.VideoCapture(...), and
\* when it has opened the timer is started and the widgets set to detecting
OpenCapture(w, opened) ==
    IF opened
    THEN SetUi([w EXCEPT !.cap = "open", !.timer = TRUE], TRUE)
    ELSE [w EXCEPT !.cap = "closed"]

\* start_detection of both windows; opened tells whether the capture opens.
\* The branches Image and Dataset process one image and touch no attribute
\* kept here, and so do the branches that only warn.
start_detection(w, opened) ==
    IF w.source = "Camera" THEN OpenCapture(w, opened)
    ELSE IF w.source = "Video File"
    THEN IF w.video_path THEN OpenCapture(w, opened) ELSE w
    ELSE w

\* update_frame of both windows; read_ok is ret, the first value of
\* self.cap.read()
update_frame(w, read_ok) ==
    IF read_ok THEN w ELSE stop_detection(w)

\* main(): the window is constructed
OpenWindow(kind) ==
    /\ win.kind = "none"
    /\ win' = NewWindow(kind)
    /\ UNCHANGED <<normalizerVars, objectVars, cameraVars, handlerVars, evalVars>>

\* the user picks an item of source_combo
SelectSource(src) ==
    /\ win.kind # "none"
    /\ win.source_combo
    /\ src \in Sources(win.kind)
    /\ src # win.source
    /\ win' = [win EXCEPT !.source = src, !.last = "select_source"]
    /\ UNCHANGED <<normalizerVars, objectVars, cameraVars, handlerVars, evalVars>>

\* browse_file, by a click on the browse button; picked tells whether the
\* dialog returned a file
BrowseFile(picked) ==
    /\ win.kind # "none"
    /\ win.browse_btn
    /\ win' = [win EXCEPT
                 !.video_path = IF win.source = "Video File" /\ picked THEN TRUE ELSE @,
                 !.image_path = IF win.source # "Video File" /\ picked THEN TRUE ELSE @,
                 !.last = "browse_file"]
    /\ UNCHANGED <<normalizerVars, objectVars, cameraVars, handlerVars, evalVars>>

\* ANPRApp.browse_dataset, by a click on its button; picked tells whether the
\* dialog returned a file, and n is the number of items DatasetLoader read
BrowseDataset(picked, n) ==
    /\ win.kind = "ANPRApp"
    /\ win.browse_dataset_btn
    /\ win' = IF picked
              THEN [win EXCEPT
                      !.dataset = "loaded",
                      !.data_len = n,
                      !.current_dataset_index = 0,
                      !.next_btn = IF n > 0 THEN TRUE ELSE @,
                      !.prev_btn = IF n > 0 THEN FALSE ELSE @,
                      !.source = IF n > 0 THEN "Dataset" ELSE @,
                      !.last = "browse_dataset"]
              ELSE [win EXCEPT !.last = "browse_dataset"]
    /\ UNCHANGED <<normalizerVars, objectVars, cameraVars, handlerVars, evalVars>>

\* next_image that advances whatever the index is
CanAdvanceAlways(w) == TRUE

\* next_image: if self.current_dataset_index < len(data) - 1
CanAdvance(w) == w.current_dataset_index < w.data_len - 1

\* not self.dataset or not self.dataset.get_data()
NoDataset(w) == w.dataset = "None" \/ w.data_len = 0

\* ANPRApp.previous_image, by a click on the Previous button
PreviousImage ==
    /\ win.kind = "ANPRApp"
    /\ win.prev_btn
    /\ win' = IF NoDataset(win)
              THEN [win EXCEPT !.last = "previous_image"]
              ELSE IF win.current_dataset_index > 0
              THEN [win EXCEPT !.current_dataset_index = @ - 1,
                               !.next_btn = TRUE,
                               !.prev_btn = (win.current_dataset_index - 1 > 0),
                               !.last = "previous_image"]
              ELSE [win EXCEPT !.last = "previous_image"]
    /\ UNCHANGED <<normalizerVars, objectVars, cameraVars, handlerVars, evalVars>>

\* ANPRApp.next_image, by a click on the Next button
NextImage ==
    /\ win.kind = "ANPRApp"
    /\ win.next_btn
    /\ win' = IF NoDataset(win)
              THEN [win EXCEPT !.last = "next_image"]
              ELSE IF CanAdvance(win)
              THEN [win EXCEPT !.current_dataset_index = @ + 1,
                               !.prev_btn = TRUE,
                               !.next_btn = (win.current_dataset_index + 1 < win.data_len - 1),
                               !.last = "next_image"]
              ELSE [win EXCEPT !.last = "next_image"]
    /\ UNCHANGED <<normalizerVars, objectVars, cameraVars, handlerVars, evalVars>>

\* start_detection, by a click on the start button
StartDetection(opened) ==
    /\ win.kind # "none"
    /\ win.start_btn
    /\ win' = [start_detection(win, opened) EXCEPT !.last = "start_detection"]
    /\ UNCHANGED <<normalizerVars, objectVars, cameraVars, handlerVars, evalVars>>

\* stop_detection, by a click on the stop button
StopDetection ==
    /\ win.kind # "none"
    /\ win.stop_btn
    /\ win' = [stop_detection(win) EXCEPT !.last = "stop_detection"]
    /\ UNCHANGED <<normalizerVars, objectVars, cameraVars, handlerVars, evalVars>>

\* update_frame, by a timeout of the running timer; only an open capture can
\* deliver a frame
UpdateFrame(read_ok) ==
    /\ win.kind # "none"
    /\ win.timer
    /\ win.cap # "None"
    /\ read_ok => win.cap = "open"
    /\ win' = [update_frame(win, read_ok) EXCEPT
                 !.last = IF read_ok THEN "update_frame" ELSE "update_frame_failed"]
    /\ UNCHANGED <<normalizerVars, objectVars, cameraVars, handlerVars, evalVars>>

---------------------------------------------------------------------------
(* The evaluation script (integrated_anpr/evaluate_model.py).  The plate   *)
(* texts of a label file are strings, as create_dataset.py writes them.  A *)
(* quotient of two integers is the record [num, den]; error tells that the *)
(* division raised ZeroDivisionError.                                      *)

\* entries of the longest list handed to calculate_accuracy
MaxEval == 3

\* predicted and ground-truth texts: the empty text, two texts that differ in
\* one character, and a longer text with the same beginning
EvalTexts ==
    { <<>>, << "A", "B" >>, << "A", "C" >>, << "A", "B", "C" >> }

Zero == [num |-> 0, den |-> 1, error |-> FALSE]

\* a / b
Divide(a, b) ==
    IF b = 0 THEN [num |-> a, den |-> 0, error |-> TRUE]
    ELSE [num |-> a, den |-> b, error |-> FALSE]

Min(a, b) == IF a <= b THEN a ELSE b
Max(a, b) == IF a >= b THEN a ELSE b

NoMetrics ==
    [exact_accuracy |-> Zero, character_accuracy |-> Zero, correct |-> 0,
     total |-> 0, character_correct |-> 0, total_characters |-> 0]

NoAccuracyCall ==
    [fn |-> "none", predictions |-> <<>>, ground_truth |-> <<>>,
     raised |-> "none", returned |-> FALSE, metrics |-> NoMetrics]

\* calculate_accuracy: the counters after the first k turns of
\* for pred, gt in zip(predictions, ground_truth)
RECURSIVE Tally(_, _, _)
Tally(predictions, ground_truth, k) ==
    IF k = 0
    THEN [correct |-> 0, character_correct |-> 0, total_characters |-> 0]
    ELSE LET before  == Tally(predictions, ground_truth, k - 1)
             pred    == predictions[k]
             gt      == ground_truth[k]
             min_len == Min(Len(pred), Len(gt))
         IN  [correct |-> before.correct + (IF pred = gt THEN 1 ELSE 0),
              character_correct |->
                  before.character_correct
                  + Cardinality({ i \in 1..min_len : pred[i] = gt[i] }),
              total_characters |->
                  before.total_characters + Max(Len(pred), Len(gt))]

\* exact_accuracy without the test of the list
exact_accuracy_unguarded(correct, predictions) == Divide(correct, Len(predictions))

\* calculate_accuracy: correct / len(predictions) if predictions else 0
exact_accuracy(correct, predictions) ==
    IF predictions # <<>> THEN Divide(correct, Len(predictions)) ELSE Zero

\* calculate_accuracy: character_correct / total_characters if total_characters else 0
character_accuracy(character_correct, total_characters) ==
    IF total_characters # 0 THEN Divide(character_correct, total_characters) ELSE Zero

\* calculate_accuracy(predictions, ground_truth)
CalculateAccuracyCall(predictions, ground_truth) ==
    IF Len(predictions) # Len(ground_truth)
    THEN [fn |-> "calculate_accuracy", predictions |-> predictions,
          ground_truth |-> ground_truth,
          raised |-> "ValueError", returned |-> FALSE, metrics |-> NoMetrics]
    ELSE LET counted   == Tally(predictions, ground_truth, Len(predictions))
             exact     == exact_accuracy(counted.correct, predictions)
             character == character_accuracy(counted.character_correct,
                                             counted.total_characters)
         IN  IF exact.error \/ character.error
             THEN [fn |-> "calculate_accuracy", predictions |-> predictions,
                   ground_truth |-> ground_truth,
                   raised |-> "ZeroDivisionError", returned |-> FALSE,
                   metrics |-> NoMetrics]
             ELSE [fn |-> "calculate_accuracy", predictions |-> predictions,
                   ground_truth |-> ground_truth,
                   raised |-> "none", returned |-> TRUE,
                   metrics |-> [exact_accuracy |-> exact,
                                character_accuracy |-> character,
                                correct |-> counted.correct,
                                total |-> Len(predictions),
                                character_correct |-> counted.character_correct,
                                total_characters |-> counted.total_characters]]

\* the caller puts one more text on the prediction list
AddPrediction(t) ==
    /\ accuracy.fn = "none"
    /\ Len(accuracy.predictions) < MaxEval
    /\ accuracy' = [accuracy EXCEPT !.predictions = Append(@, t)]
    /\ UNCHANGED <<ev, normalizerVars, objectVars, cameraVars, windowVars, handlerVars>>

\* the caller puts one more text on the ground-truth list
AddGroundTruth(t) ==
    /\ accuracy.fn = "none"
    /\ Len(accuracy.ground_truth) < MaxEval
    /\ accuracy' = [accuracy EXCEPT !.ground_truth = Append(@, t)]
    /\ UNCHANGED <<ev, normalizerVars, objectVars, cameraVars, windowVars, handlerVars>>

\* calculate_accuracy is called with the two lists
CalculateAccuracy ==
    /\ accuracy.fn = "none"
    /\ accuracy' = CalculateAccuracyCall(accuracy.predictions, accuracy.ground_truth)
    /\ UNCHANGED <<ev, normalizerVars, objectVars, cameraVars, windowVars, handlerVars>>

\* items of the label file: one whose image loads and is read as labelled,
\* one whose image loads and is read differently, one whose image is read as
\* nothing, and one whose image does not load.  plate_text and confidence
\* are what ANPRModel.process_image returns for the image.
EvalItems ==
    { [img_path |-> "a.jpg", loads |-> TRUE, label |-> << "A", "B" >>,
       plate_text |-> << "A", "B" >>, confidence |-> 2],
      [img_path |-> "b.jpg", loads |-> TRUE, label |-> << "A", "B", "C" >>,
       plate_text |-> << "A", "C" >>, confidence |-> 1],
      [img_path |-> "c.jpg", loads |-> TRUE, label |-> << "A", "C" >>,
       plate_text |-> <<>>, confidence |-> 0],
      [img_path |-> "missing.jpg", loads |-> FALSE, label |-> << "A", "B" >>,
       plate_text |-> <<>>, confidence |-> 0] }

\* the label files of up to MaxEval items
EvalData == UNION { [ 1..n -> EvalItems ] : n \in 0..MaxEval }

\* evaluate_model not called; done counts the items the loop has taken
NoEvaluation ==
    [pc |-> "none", data |-> <<>>, done |-> 0,
     predictions |-> <<>>, ground_truth |-> <<>>, confidences |-> <<>>,
     failed_images |-> <<>>]

\* a turn of the loop that keeps the label of an image that failed to load
LoopTurnLabelKept(e, item) ==
    IF ~item.loads
    THEN [e EXCEPT !.done = @ + 1,
                   !.failed_images = Append(@, item.img_path),
                   !.ground_truth = Append(@, item.label)]
    ELSE [e EXCEPT !.done = @ + 1,
                   !.predictions = Append(@, item.plate_text),
                   !.ground_truth = Append(@, item.label),
                   !.confidences = Append(@, item.confidence)]

\* evaluate_model: one turn of for item in tqdm(data)
LoopTurn(e, item) ==
    IF ~item.loads
    THEN [e EXCEPT !.done = @ + 1,
                   !.failed_images = Append(@, item.img_path)]
    ELSE [e EXCEPT !.done = @ + 1,
                   !.predictions = Append(@, item.plate_text),
                   !.ground_truth = Append(@, item.label),
                   !.confidences = Append(@, item.confidence)]

\* evaluate_model is called: the dataset is loaded; without data it returns {}
EvalStart(data) ==
    /\ ev.pc = "none"
    /\ ev' = [NoEvaluation EXCEPT !.data = data,
                                  !.pc = IF data = <<>> THEN "returned_empty" ELSE "loop"]
    /\ UNCHANGED <<accuracy, normalizerVars, objectVars, cameraVars, windowVars, handlerVars>>

\* evaluate_model: the loop takes the next item
EvalItem ==
    /\ ev.pc = "loop"
    /\ ev.done < Len(ev.data)
    /\ ev' = LoopTurn(ev, ev.data[ev.done + 1])
    /\ UNCHANGED <<accuracy, normalizerVars, objectVars, cameraVars, windowVars, handlerVars>>

\* evaluate_model: after the loop calculate_accuracy is called; when it
\* raises, so does evaluate_model, otherwise the results are returned
EvalFinish ==
    /\ ev.pc = "loop"
    /\ ev.done = Len(ev.data)
    /\ accuracy' = CalculateAccuracyCall(ev.predictions, ev.ground_truth)
    /\ ev' = [ev EXCEPT !.pc = IF accuracy'.returned THEN "returned" ELSE "raised"]
    /\ UNCHANGED <<normalizerVars, objectVars, cameraVars, windowVars, handlerVars>>

---------------------------------------------------------------------------
(* Specifications: SpecText runs the post-processing routines on the texts *)
(* an OCR engine can read, SpecPlate runs the recognition routines on the  *)
(* result lists it can return.                                             *)
(* SpecCalls calls one ANPRModel object again and again, SpecCamera runs    *)
(* the camera window with its thread (SpecCameraLive with both threads     *)
(* scheduled fairly), SpecWindow the detection windows, SpecHandler the    *)
(* recognition of ModelHandler, SpecAccuracy calculate_accuracy and        *)
(* SpecEval evaluate_model.                                                *)

Init ==
    /\ text = <<>>
    /\ pp = NoCall
    /\ results_processed = <<>>
    /\ results_original = <<>>
    /\ results_gray = <<>>
    /\ result = <<>>
    /\ ret = NoRet
    /\ model_obj = NewModel
    /\ calls = <<>>
    /\ cam = NoThread
    /\ queue = <<>>
    /\ mw = NewMainWindow
    /\ rp = [ p \in Callers |-> IdleCall ]
    /\ locals = [ p \in Callers |-> NoLocals ]
    /\ win = NoWindow
    /\ mh = NoHandlerCall
    /\ accuracy = NoAccuracyCall
    /\ ev = NoEvaluation

NextText ==
    \/ \E c \in PlateChars \cup NoiseChars \cup MarkChars : OcrRead(c)
    \/ PostProcessText
    \/ PostProcessPlateText

SpecText == Init /\ [][NextText]_vars

NextPlate ==
    \/ \E img \in {"processed", "original", "gray"}, t \in SampleTexts, c \in Confidences :
          ReadText(img, t, c)
    \/ \E t \in SampleTexts, c \in Confidences : BackendReadText(t, c)
    \/ RecognizePlate
    \/ BackendRecognizePlate

SpecPlate == Init /\ [][NextPlate]_vars

NextCalls == \E all_results \in SampleCalls : RecognizeCall(all_results)

SpecCalls == Init /\ [][NextCalls]_vars

NextCamera ==
    \/ StartCamera
    \/ StopCamera
    \/ CloseEvent
    \/ StopCameraReturn
    \/ OnFrameReady
    \/ OnFrameReadyReturn
    \/ \E opened \in BOOLEAN : RunOpen(opened)
    \/ RunSetRunning
    \/ RunLoopTest
    \/ \E f \in SampleFrames : RunRead(f)
    \/ RunReadFailed
    \/ RunRaise
    \/ RunProcessFrame
    \/ RunDraw
    \/ RunEmit
    \/ RunExcept
    \/ RunCleanup
    \/ \E p \in Callers : OcrStep(p)
    \/ \E p \in Callers : BestStep(p)
    \/ \E p \in Callers : PostStep(p)

SpecCamera == Init /\ [][NextCamera]_vars

\* the steps of the worker thread: run() and the process_frame call it makes
WorkerNext ==
    \/ \E opened \in BOOLEAN : RunOpen(opened)
    \/ RunSetRunning
    \/ RunLoopTest
    \/ \E f \in SampleFrames : RunRead(f)
    \/ RunReadFailed
    \/ RunRaise
    \/ RunProcessFrame
    \/ RunDraw
    \/ RunEmit
    \/ RunExcept
    \/ RunCleanup
    \/ OcrStep("worker")
    \/ BestStep("worker")
    \/ PostStep("worker")

\* the steps the GUI thread takes by itself once an event handler has begun
GuiNext ==
    \/ StopCameraReturn
    \/ OnFrameReadyReturn
    \/ OcrStep("gui")
    \/ BestStep("gui")
    \/ PostStep("gui")

\* SpecCamera with both threads scheduled again and again: a started worker
\* thread keeps running, and the GUI thread goes on whenever it can (wait()
\* returns once run() has ended)
SpecCameraLive ==
    Init /\ [][NextCamera]_vars /\ WF_vars(WorkerNext) /\ WF_vars(GuiNext)

NextWindow ==
    \/ \E kind \in { "ANPRApp", "ANPRMainWindow" } : OpenWindow(kind)
    \/ \E src \in Sources("ANPRApp") : SelectSource(src)
    \/ \E picked \in BOOLEAN : BrowseFile(picked)
    \/ \E picked \in BOOLEAN, n \in 0..MaxData : BrowseDataset(picked, n)
    \/ \E opened \in BOOLEAN : StartDetection(opened)
    \/ StopDetection
    \/ \E read_ok \in BOOLEAN : UpdateFrame(read_ok)
    \/ PreviousImage
    \/ NextImage

SpecWindow == Init /\ [][NextWindow]_vars

NextHandler ==
    \/ \E t \in HandlerTexts, c \in Confidences : HandlerReadText(t, c)
    \/ \E has_region \in BOOLEAN : HandlerRecognizePlate(has_region)

SpecHandler == Init /\ [][NextHandler]_vars

NextAccuracy ==
    \/ \E t \in EvalTexts : AddPrediction(t)
    \/ \E t \in EvalTexts : AddGroundTruth(t)
    \/ CalculateAccuracy

SpecAccuracy == Init /\ [][NextAccuracy]_vars

NextEval ==
    \/ \E data \in EvalData : EvalStart(data)
    \/ EvalItem
    \/ EvalFinish

SpecEval == Init /\ [][NextEval]_vars

---------------------------------------------------------------------------
(* The plate grammar and the correction zones as the specification states  *)
(* them, for the properties below.                                         *)

\* 2 letters, 1-2 digits, 1-2 letters, 1-4 digits, an optional trailing letter:
\* the whole string, with a letter in A-Z and a digit any decimal digit
PlateGrammar(s) ==
    \E b \in 1..2, c \in 1..2, d \in 1..4, e \in 0..1 :
        /\ Len(s) = 2 + b + c + d + e
        /\ \A j \in 1..Len(s) :
              IF j <= 2 THEN s[j] \in AsciiUpper
              ELSE IF j <= 2 + b THEN s[j] \in AsciiDigit \cup NonAsciiDigit
              ELSE IF j <= 2 + b + c THEN s[j] \in AsciiUpper
              ELSE IF j <= 2 + b + c + d THEN s[j] \in AsciiDigit \cup NonAsciiDigit
              ELSE s[j] \in AsciiUpper

\* the same without the trailing letter: the pattern of ANPRBackend
BackendGrammar(s) ==
    \E b \in 1..2, c \in 1..2, d \in 1..4 :
        /\ Len(s) = 2 + b + c + d
        /\ \A j \in 1..Len(s) :
              IF j <= 2 THEN s[j] \in AsciiUpper
              ELSE IF j <= 2 + b THEN s[j] \in AsciiDigit \cup NonAsciiDigit
              ELSE IF j <= 2 + b + c THEN s[j] \in AsciiUpper
              ELSE s[j] \in AsciiDigit \cup NonAsciiDigit

HasLetter(s) == \E j \in 1..Len(s) : isalpha(s[j])
HasDigit(s) == \E j \in 1..Len(s) : isdigit(s[j])

\* the zone of the (0-based) index i: 0-1 letters, 2-3 digits, 4-5 letters, 6.. digits
ZoneOf(i) == IF i < 2 THEN "L" ELSE IF i < 4 THEN "D" ELSE IF i < 6 THEN "L" ELSE "D"

DigitToLetterTable ==
    ("0" :> "O") @@ ("1" :> "I") @@ ("2" :> "Z") @@ ("4" :> "A") @@
    ("5" :> "S") @@ ("6" :> "G") @@ ("7" :> "T") @@ ("8" :> "B")
LetterToDigitTable ==
    ("O" :> "0") @@ ("I" :> "1") @@ ("Z" :> "2") @@ ("S" :> "5") @@
    ("B" :> "8") @@ ("D" :> "0") @@ ("Q" :> "0") @@ ("T" :> "7")

\* the character the zone of index i asks for: the table of the zone applied
ZoneRemap(i, ch) ==
    IF ZoneOf(i) = "L"
    THEN IF ch \in DOMAIN DigitToLetterTable THEN DigitToLetterTable[ch] ELSE ch
    ELSE IF ch \in DOMAIN LetterToDigitTable THEN LetterToDigitTable[ch] ELSE ch

\* an _post_process_text call that reached the correction loop
ModelCorrected == pp.fn = "model" /\ pp.stage \in {"matched", "fallback", "rejected"}

\* the OCR results ANPRModel._post_process_text accepts, by index
Accepted(all) == { i \in 1..Len(all) : ModelText(all[i].text) # <<>> }

---------------------------------------------------------------------------
(* Properties of SpecPlate: candidate selection.                           *)

\* C1: ANPRModel.recognize_plate returns, among the candidates whose
\* post-processed text is non-empty, the one of highest confidence, and of
\* several with the highest confidence the first one in the order processed,
\* original, gray.
C1_HighestConfidenceFirstSeen ==
    (ret.fn = "model" /\ Accepted(AllResults) # {}) =>
        LET all  == AllResults
            acc  == Accepted(all)
            best == CHOOSE i \in acc :
                      \A j \in acc : \/ all[j].conf < all[i].conf
                                     \/ all[j].conf = all[i].conf /\ i <= j
        IN  /\ ret.text = ModelText(all[best].text)
            /\ ret.conf = all[best].conf

\* C1 witness: two accepted candidates with different texts share the highest
\* confidence, the first read from the original image and the second from the
\* gray one, and the first is returned.
C1_Witness ==
    /\ ret.fn = "model"
    /\ results_processed = <<>>
    /\ \E i \in 1..Len(results_original), j \in 1..Len(results_gray) :
          /\ ModelText(results_original[i].text) # <<>>
          /\ ModelText(results_gray[j].text) # <<>>
          /\ ModelText(results_original[i].text) # ModelText(results_gray[j].text)
          /\ results_original[i].conf = results_gray[j].conf
          /\ results_original[i].conf > 0
          /\ \A k \in Accepted(AllResults) : AllResults[k].conf <= results_gray[j].conf
          /\ \A k \in 1..(i - 1) : results_original[k].conf < results_original[i].conf
          /\ ret.text = ModelText(results_original[i].text)

\* C2: in both recognize_plate routines the returned text and confidence never
\* come from a candidate post-processing rejects (one whose post-processed text
\* is empty): the result is ("", 0.0) or the text and the confidence of an
\* accepted candidate.
C2_RejectedNeverReturned ==
    /\ ret.fn = "model" =>
          \/ ret.text = <<>> /\ ret.conf = 0
          \/ \E i \in Accepted(AllResults) :
                /\ ret.text = ModelText(AllResults[i].text)
                /\ ret.conf = AllResults[i].conf
    /\ ret.fn = "backend" =>
          \/ ret.text = <<>> /\ ret.conf = 0
          \/ \E i \in 1..Len(result) :
                /\ BackendText(result[i].text) # <<>>
                /\ ret.text = BackendText(result[i].text)
                /\ ret.conf = result[i].conf

\* C4: when there is no OCR result, or post-processing accepts none,
\* ANPRModel.recognize_plate returns ("", 0.0).
C4_NoCandidateEmptyResult ==
    (ret.fn = "model" /\ Accepted(AllResults) = {}) =>
        ret.text = <<>> /\ ret.conf = 0

\* C4 witness: every OCR result is rejected, one of them of confidence above 0.
C4_Witness ==
    /\ ret.fn = "model"
    /\ AllResults # <<>>
    /\ Accepted(AllResults) = {}
    /\ \E i \in 1..Len(AllResults) : AllResults[i].conf > 0
    /\ ret.text = <<>>
    /\ ret.conf = 0

---------------------------------------------------------------------------
(* Properties of SpecText: post-processing of one text.                    *)

C5_ZonesEveryLength ==
    ModelCorrected =>
        /\ Len(pp.processed_text) = Len(pp.cleaned)
        /\ \A j \in 1..Len(pp.cleaned) :
              pp.processed_text[j] = ZoneRemap(j - 1, pp.cleaned[j])

\* C5 as amended: the same, but at the indices 4-5 the digits are remapped only
\* when the cleaned text has more than 8 characters; in a shorter text the
\* characters at the indices 4-5 are left as they are.
C5_ZonesLongSeries ==
    ModelCorrected =>
        /\ Len(pp.processed_text) = Len(pp.cleaned)
        /\ \A j \in 1..Len(pp.cleaned) :
              pp.processed_text[j] =
                 IF j - 1 \in 4..5 /\ Len(pp.cleaned) <= 8
                 THEN pp.cleaned[j]
                 ELSE ZoneRemap(j - 1, pp.cleaned[j])

\* C5 witness: a cleaned text of more than 8 characters with a letter of the
\* table at index 2 and a digit of the table at index 4, both remapped.
C5_Witness ==
    /\ ModelCorrected
    /\ Len(pp.cleaned) > 8
    /\ pp.cleaned[3] = "B" /\ pp.processed_text[3] = "8"
    /\ pp.cleaned[5] = "8" /\ pp.processed_text[5] = "B"

\* C6: in both post-processing routines a digit is turned into a letter only in
\* a letter zone and a letter into a digit only in a digit zone.
C6_TablesOnlyInOwnZone ==
    (pp.fn \in {"model", "backend"} /\ Len(pp.processed_text) = Len(pp.cleaned)) =>
        \A j \in 1..Len(pp.cleaned) :
            /\ (isdigit(pp.cleaned[j]) /\ isalpha(pp.processed_text[j]))
                  => ZoneOf(j - 1) = "L"
            /\ (isalpha(pp.cleaned[j]) /\ isdigit(pp.processed_text[j]))
                  => ZoneOf(j - 1) = "D"

\* C7: in both post-processing routines a text that matches the plate grammar
\* after cleanup and upper-casing is returned as that cleaned text.
C7_ValidPlateUnchanged ==
    (pp.fn \in {"model", "backend"} /\ PlateGrammar(pp.cleaned)) =>
        pp.out = pp.cleaned

C9_AnchoredEverywhere ==
    (pp.fn \in {"model", "backend"} /\ pp.stage = "matched") =>
        /\ PlateGrammar(pp.processed_text)
        /\ pp.out = pp.processed_text

\* C9 as amended: in ANPRModel._post_process_text the grammar step accepts a
\* text only when the whole text matches the grammar, and then returns it as it
\* is; ANPRBackend._post_process_plate_text returns a stretch of the text that
\* matches its pattern.
C9_AnchoredInModel ==
    /\ (pp.fn = "model" /\ pp.stage = "matched") =>
          /\ PlateGrammar(pp.processed_text)
          /\ pp.out = pp.processed_text
    /\ (pp.fn = "backend" /\ pp.stage = "matched") =>
          /\ BackendGrammar(pp.out)
          /\ \E a \in 1..Len(pp.processed_text) :
                pp.out = SubSeq(pp.processed_text, a, a + Len(pp.out) - 1)

\* C9 witness: a call of _post_process_text that returns at the grammar step.
C9_Witness ==
    pp.fn = "model" /\ pp.stage = "matched" /\ pp.out = pp.processed_text

\* C10: in both routines the cleaned text is the raw text without the
\* characters that are no ASCII letter or digit, upper-cased, so it holds only
\* A-Z and 0-9.
C10_CleanedAsciiOnly ==
    pp.fn \in {"model", "backend"} =>
        /\ \A j \in 1..Len(pp.cleaned) : pp.cleaned[j] \in AsciiUpper \cup AsciiDigit
        /\ LET kept == SelectSeq(pp.text,
                         LAMBDA c : c \in AsciiUpper \cup AsciiLower \cup AsciiDigit)
           IN  pp.cleaned = [ j \in 1..Len(kept) |-> UpperChar(kept[j])[1] ]

---------------------------------------------------------------------------
(* Properties of SpecText: short texts, totality, idempotence.             *)

\* C11: a text whose cleaned text has fewer than 4 characters is discarded:
\* _post_process_text returns the empty text for it, and as an OCR result of
\* any confidence it adds no candidate to the selection.
C11_ShortTextDiscarded ==
    (pp.fn = "model" /\ Len(pp.cleaned) < 4) =>
        /\ pp.out = <<>>
        /\ \A c \in Confidences :
              Candidates(<< [text |-> pp.text, conf |-> c] >>) = <<>>

\* C11 witness: a raw text of at least 4 characters whose cleaned text has
\* between 1 and 3 characters, returned as the empty text.
C11_Witness ==
    /\ pp.fn = "model"
    /\ Len(pp.text) >= 4
    /\ Len(pp.cleaned) \in 1..3
    /\ pp.out = <<>>

C15_Idempotent ==
    /\ pp.fn = "model" => post_process_text(pp.out) = pp.out
    /\ pp.fn = "backend" => post_process_plate_text(pp.out) = pp.out

---------------------------------------------------------------------------
(* Properties of SpecPlate: the returned confidence, the failure result,   *)
(* the order of the candidates.                                            *)

\* C12: the confidence recognize_plate returns with a text is the confidence
\* of the OCR result that text was made from: the returned pair is the pair of
\* one candidate, in both routines.
C12_ConfidenceOfWinner ==
    /\ (ret.fn = "model" /\ ret.text # <<>>) =>
          \E i \in 1..Len(AllResults) :
              /\ ModelText(AllResults[i].text) = ret.text
              /\ AllResults[i].conf = ret.conf
    /\ (ret.fn = "backend" /\ result # <<>>) =>
          \E i \in 1..Len(result) :
              /\ BackendText(result[i].text) = ret.text
              /\ result[i].conf = ret.conf

\* C12 witness: ANPRBackend.recognize_plate returned from OCR results of
\* different texts and different confidences, the best of them not the first.
C12_Witness ==
    /\ ret.fn = "backend"
    /\ Len(result) >= 2
    /\ BackendText(result[1].text) # ret.text
    /\ result[1].conf < ret.conf
    /\ \E i \in 2..Len(result) :
          /\ BackendText(result[i].text) = ret.text
          /\ result[i].conf = ret.conf

\* C13: in both recognize_plate routines an empty returned text comes with
\* the confidence 0.0.
C13_EmptyTextZeroConfidence ==
    (ret.fn \in {"model", "backend"} /\ ret.text = <<>>) => ret.conf = 0

\* two accepted candidates of different texts share the highest confidence
TiedTop(all) ==
    \E i, j \in Accepted(all) :
        /\ ModelText(all[i].text) # ModelText(all[j].text)
        /\ all[i].conf = all[j].conf
        /\ \A k \in Accepted(all) : all[k].conf <= all[i].conf

\* C17: ANPRModel.recognize_plate on a reordering of the OCR results returns
\* the same confidence, and returns another text only when two accepted
\* candidates of different texts share the highest confidence.
C17_OrderOnlyBreaksTies ==
    ret.fn = "model" =>
        \A f \in Permutations(1..Len(AllResults)) :
            LET reordered == [ i \in 1..Len(AllResults) |-> AllResults[f[i]] ]
                r == ModelRecognize(reordered)
            IN  /\ r.conf = ret.conf
                /\ r.text # ret.text => TiedTop(AllResults)

\* C17 witness: three OCR results, the first rejected with the highest
\* confidence, then two accepted ones of different texts with the better one
\* last, and the better one is returned.
C17_Witness ==
    /\ ret.fn = "model"
    /\ Len(AllResults) = 3
    /\ Accepted(AllResults) = {2, 3}
    /\ AllResults[1].conf > AllResults[3].conf
    /\ AllResults[2].conf < AllResults[3].conf
    /\ ModelText(AllResults[2].text) # ModelText(AllResults[3].text)
    /\ ret.text = ModelText(AllResults[3].text)
    /\ ret.conf = AllResults[3].conf

---------------------------------------------------------------------------
(* Properties of SpecCalls: one object, several calls.                     *)

---------------------------------------------------------------------------
(* Properties of SpecCamera: concurrent calls, the end of run().           *)

C19_RunEndsCleanedUp ==
    cam.pc = "finished" =>
        /\ cam.handle \in {"none", "released"}
        /\ cam.capture = "None"
        /\ cam.frame = NoFrame
        /\ ~cam.running

\* C19 witness: run() has ended after a source that did not open, with the
\* capture released, while no stop was asked for.
C19_Witness ==
    /\ cam.pc = "finished"
    /\ cam.frame_count = 0
    /\ cam.handle = "released"
    /\ mw.pc = "idle"
    /\ mw.camera_thread = "set"

---------------------------------------------------------------------------
(* Properties of SpecWindow: the polling timer and the widgets.            *)

\* the widgets in the detecting state, and in the idle state
UiDetecting == ~win.start_btn /\ win.stop_btn /\ ~win.source_combo /\ ~win.browse_btn
UiIdle == win.start_btn /\ ~win.stop_btn /\ win.source_combo /\ win.browse_btn

\* C20: in both detection windows the timer is active exactly when the widgets
\* are in the detecting state (and they are in the idle state otherwise), an
\* active timer comes with a capture object that opened and is not released,
\* and after a failed read in update_frame the window is idle.
C20_TimerMatchesUi ==
    win.kind # "none" =>
        /\ win.timer => UiDetecting
        /\ ~win.timer => UiIdle
        /\ win.timer => win.cap = "open"
        /\ win.last = "update_frame_failed" => (~win.timer /\ UiIdle)

\* C20 witness: a window that was detecting is idle after a failed read, its
\* capture released.
C20_Witness ==
    /\ win.kind # "none"
    /\ win.last = "update_frame_failed"
    /\ win.cap = "released"
    /\ ~win.timer
    /\ UiIdle

\* C21: with a backend set, process_frame has been invoked for exactly the
\* successfully read frames whose frame_count was a multiple of 2 (the last
\* one may still be about to be handed over), and frame_count equals the
\* number of successful reads, whether or not reads have failed in between.
C21_EverySecondFrameProcessed ==
    (cam.pc # "none" /\ cam.anpr_backend) =>
        /\ cam.frame_count = cam.reads
        /\ LET handed == IF cam.pc = "process" THEN cam.reads - 1 ELSE cam.reads
           IN  cam.processed = { n \in 1..handed : n % 2 = 0 }

\* C21 witness: three frames were read and a read failed; the second frame
\* alone was handed to process_frame.
C21_Witness ==
    /\ cam.anpr_backend
    /\ cam.read_failed
    /\ cam.reads = 3
    /\ cam.processed = { 2 }

---------------------------------------------------------------------------
(* Properties of SpecHandler: ModelHandler.recognize_plate.                *)

CountOf(t, P(_)) == Cardinality({ j \in 1..Len(t) : P(t[j]) })

\* C22: _is_valid_plate accepts a text only if it has at least 5 characters,
\* at least 2 letters and at least 2 digits, and recognize_plate returns None
\* for every text the check rejects.
C22_ValidNeedsTwoLettersTwoDigits ==
    (mh.fn = "recognize_plate" /\ mh.results # <<>>) =>
        /\ mh.valid => /\ Len(mh.text) >= 5
                       /\ CountOf(mh.text, isalpha) >= 2
                       /\ CountOf(mh.text, isdigit) >= 2
        /\ ~mh.valid => mh.out.none

---------------------------------------------------------------------------
(* Properties of SpecAccuracy: calculate_accuracy.                         *)

\* C23: calculate_accuracy raises ValueError whenever the two lists differ in
\* length; whenever they have the same length it raises nothing and returns
\* the metrics, whose total is that length, and for two empty lists both
\* accuracies are 0.
C23_RaisesOnlyOnLengthMismatch ==
    accuracy.fn = "calculate_accuracy" =>
        /\ Len(accuracy.predictions) # Len(accuracy.ground_truth)
              => (accuracy.raised = "ValueError" /\ ~accuracy.returned)
        /\ Len(accuracy.predictions) = Len(accuracy.ground_truth)
              => /\ accuracy.raised = "none"
                 /\ accuracy.returned
                 /\ accuracy.metrics.total = Len(accuracy.predictions)
        /\ (accuracy.predictions = <<>> /\ accuracy.ground_truth = <<>>)
              => /\ accuracy.metrics.exact_accuracy.num = 0
                 /\ accuracy.metrics.character_accuracy.num = 0

\* C23 witness: the call on two empty lists has returned.
C23_Witness ==
    /\ accuracy.fn = "calculate_accuracy"
    /\ accuracy.predictions = <<>>
    /\ accuracy.ground_truth = <<>>
    /\ accuracy.returned

---------------------------------------------------------------------------
(* Properties of SpecCameraLive: the end of the capture loop.              *)

\* C24: after CameraThread.stop() is called on a started thread, the capture
\* loop ends and stop() returns (the GUI thread, waiting in stop(), goes on
\* with stop_camera), whatever run() had reached when stop() was called.
C24_StopReturns ==
    (mw.pc = "waiting") ~> (mw.pc \in { "idle", "closed" } /\ cam.pc = "finished")

---------------------------------------------------------------------------
(* Properties of SpecCamera: the one camera thread of MainWindow.          *)

\* C25: in MainWindow at most one CameraThread exists; a start_camera call
\* while camera_thread is set changes nothing; camera_thread is set exactly
\* when the start button is disabled and the stop and capture buttons are
\* enabled (and the buttons are the other way round when it is not set).
C25_AtMostOneCameraThread ==
    /\ mw.threads <= 1
    /\ mw.camera_thread # "None" <=> mw.threads = 1
    /\ mw.camera_thread # "None"
          => (~mw.start_button /\ mw.stop_button /\ mw.capture_button)
    /\ mw.camera_thread = "None"
          => (mw.start_button /\ ~mw.stop_button /\ ~mw.capture_button)
    /\ mw.last = "start_camera_noop"
          => (mw.camera_thread # "None" /\ mw.threads = 1)

\* C25 witness: start_camera was called while the thread of an earlier call
\* was reading frames, and there is still that one thread.
C25_Witness ==
    /\ mw.last = "start_camera_noop"
    /\ mw.threads = 1
    /\ cam.pc = "read"
    /\ cam.reads >= 1

---------------------------------------------------------------------------
(* Properties of SpecWindow: the dataset navigation of ANPRApp.            *)

\* C26: whenever a non-empty dataset is loaded in ANPRApp, the Previous
\* button is enabled exactly when current_dataset_index > 0 and the Next
\* button exactly when current_dataset_index < len(data) - 1.
C26_NavigationButtonsMatchIndex ==
    (win.kind = "ANPRApp" /\ win.dataset = "loaded" /\ win.data_len > 0) =>
        /\ win.prev_btn <=> win.current_dataset_index > 0
        /\ win.next_btn <=> win.current_dataset_index < win.data_len - 1

\* C27: in ANPRApp current_dataset_index is never negative, and with a
\* non-empty dataset it is at most len(data) - 1.
C27_IndexWithinDataset ==
    win.kind = "ANPRApp" =>
        /\ 0 <= win.current_dataset_index
        /\ win.data_len > 0 => win.current_dataset_index <= win.data_len - 1

\* C27 witness: next_image has advanced to the last item of a dataset of
\* several items.
C27_Witness ==
    /\ win.kind = "ANPRApp"
    /\ win.last = "next_image"
    /\ win.data_len >= 2
    /\ win.current_dataset_index = win.data_len - 1
    /\ win.prev_btn

---------------------------------------------------------------------------
(* Properties of SpecEval: the lists of evaluate_model.                    *)

\* the paths of the images among the first k items that fail to load
RECURSIVE FailedAmong(_, _)
FailedAmong(data, k) ==
    IF k = 0 THEN <<>>
    ELSE IF data[k].loads THEN FailedAmong(data, k - 1)
    ELSE Append(FailedAmong(data, k - 1), data[k].img_path)

\* C28: in evaluate_model the images that failed to load, and only they, are
\* recorded in failed_images; the prediction, ground-truth and confidence
\* lists have the same length, the number of items taken minus the number of
\* failed images; and calculate_accuracy is called with lists of one length.
C28_ListsStayAligned ==
    ev.pc # "none" =>
        /\ ev.failed_images = FailedAmong(ev.data, ev.done)
        /\ Len(ev.predictions) = ev.done - Len(ev.failed_images)
        /\ Len(ev.ground_truth) = Len(ev.predictions)
        /\ Len(ev.confidences) = Len(ev.predictions)
        /\ ev.pc \in { "returned", "raised" }
              => /\ accuracy.fn = "calculate_accuracy"
                 /\ Len(accuracy.predictions) = Len(accuracy.ground_truth)
                 /\ Len(accuracy.predictions) = Len(ev.data) - Len(ev.failed_images)
                 /\ ev.pc = "returned"

\* C28 witness: a dataset with images that load and images that do not has
\* been evaluated.
C28_Witness ==
    /\ ev.pc = "returned"
    /\ Len(ev.failed_images) >= 1
    /\ Len(ev.predictions) >= 2

====
